---- MODULE Spec2Model ----
(***************************************************************************)
(* Model of src/dataset_generator.py: the inventory ledger                 *)
(* (InventoryManager), the page-type transition table, the page-content    *)
(* binding, the generation of the catalog, the session/transaction         *)
(* generation loop and the export; and of the load of src/load_data.py.    *)
(*                                                                         *)
(* Several state machines share the module:                                *)
(*   Spec        the sequential generation driver (the while loop of the   *)
(*               script), one action per step of the loop body; appended   *)
(*               records keep their identifiers, links, status and items;  *)
(*   SpecJourney the session part of the first iteration, with the whole   *)
(*               page-view sequence and the full session and transaction   *)
(*               records kept;                                             *)
(*   SpecAmounts the first iteration of the loop, both settlement paths,   *)
(*               with the amounts of the transaction records kept;         *)
(*   SpecLedger  several actors calling InventoryManager.update_stock on   *)
(*               one ledger, one action per step of the call, with the     *)
(*               RLock modelled explicitly;                                *)
(*   SpecTiming  the timestamps of one session and of its page views;      *)
(*   SpecTrail   the page types of one session of up to MaxTrail pages;    *)
(*   SpecCatalog the generation of categories, products and users by two   *)
(*               runs of the script with the same seed;                    *)
(*   SpecStore   the export of the collections to files and their load     *)
(*               into the database.                                        *)
(*                                                                         *)
(* Scaling.  The script's configuration (NUM_SESSIONS = 2000000, ...) is   *)
(* far beyond explicit-state checking; the counts below are small          *)
(* stand-ins, and the initial stock range randint(10, 1000) is scaled to   *)
(* MinInitStock..MaxInitStock so that stock exhaustion, which the script   *)
(* reaches after many iterations, is reached within the scaled loop.       *)
(* Opaque content (names, geo data, device, referrer, timestamps) does not *)
(* influence control flow and is left out of the driver's records.         *)
(***************************************************************************)
EXTENDS Integers, Sequences, FiniteSets, TLC

\* ---------------------------------------------------------------- bounds
NUM_USERS == 1
NUM_PRODUCTS == 2
NUM_CATEGORIES == 1
NUM_SESSIONS == 2
NUM_TRANSACTIONS == 2
MaxPages == 5
MinInitStock == 1
MaxInitStock == 2
\* SpecLedger: actors, calls per run, and the largest stock of its ledgers
NumActors == 2
MaxCalls == 3
MaxLedgerStock == 2
\* SpecTiming: the session start times, in seconds from the earliest one
MaxStart == 1
\* SpecAmounts: the iterations followed
AmountIterations == 1
\* SpecCatalog: TIMESPAN_DAYS (90 in the script), the raw draws of the
\* seeded generator behind a date, and the days between the two runs
TIMESPAN_DAYS == 3
MaxDraw == 1
MaxSkew == 1
\* SpecTrail: the longest page-view sequence (randint(1, 15) in the script)
MaxTrail == 7
\* SpecBasket: the largest initial stock
BasketStock == 3
\* SpecStore: CHUNK_SIZE (100000 in the generator), BATCH_SIZE (50000 in the
\* loader) and the largest number of sessions or transactions exported
CHUNK_SIZE == 2
BATCH_SIZE == 1
MaxExported == 5

\* ------------------------------------------------------ program constants
\* Slip: a ceiling below the session target.
MAX_ITERATIONS_below_target == NUM_SESSIONS - 1

\* Line 21.
MAX_ITERATIONS == (NUM_SESSIONS + NUM_TRANSACTIONS) * 2
MaxAttempts == 10
MinAddQty == 1
MaxAddQty == 3
MaxBasket == 3
MinNumPages == 1
MaxNumPages == 15
MinDuration == 30
MaxDuration == 1800
MinSubcategories == 3
MaxSubcategories == 5
MaxPriceChanges == 2

\* Identifiers are the positive integers; 0 stands for Python's None.
None == 0
Users == 1..NUM_USERS
Products == 1..NUM_PRODUCTS
Categories == 1..NUM_CATEGORIES
PriceOf(p) == 500 * p + 99

PageTypes ==
  {"home", "search", "category_listing", "product_detail", "cart",
   "checkout", "confirmation"}

VARIABLES
  \* catalog and ledger (InventoryManager.products)
  current_stock, is_active, category_id, initial_stock,
  \* driver
  pc, iteration, session_counter, transaction_counter, sessions, transactions,
  \* locals of one session
  user, session_id, num_pages, page_idx, page_views, viewed_products,
  cart_contents, converted,
  \* locals of one settlement
  transaction_items, valid, line_idx, products_in_txn,
  \* history: the ledger when the running settlement began, the update_stock
  \* call made by the latest settlement step (NoCall when it made none), and
  \* the outcome of the session-linked settlement of each session
  stock_before, last_call, settlement,
  \* SpecLedger: the holder of InventoryManager.lock, each actor's position
  \* in update_stock, the calls started, and (history) the quantities granted
  lock, actor, calls, granted,
  \* SpecTiming: the start and the duration (seconds) of the session
  session_start, session_duration,
  \* SpecCatalog: per run of the script, the wall-clock time (days) at which
  \* it runs, the generated collections, and the product being generated
  run_clock, categories, products, users, draft,
  \* SpecStore: the exported files (name -> records), the database
  \* (collection -> documents) and the locals of the exporter and the loader
  files, db, loader

catalogVars == <<is_active, category_id, initial_stock>>
counterVars == <<iteration, session_counter, transaction_counter>>
sessionVars ==
  <<user, session_id, num_pages, page_idx, page_views, viewed_products,
    cart_contents, converted>>
settleVars ==
  <<transaction_items, valid, line_idx, products_in_txn, stock_before,
    last_call>>
ledgerVars == <<lock, actor, calls, granted>>
timingVars == <<session_start, session_duration>>
generationVars == <<run_clock, categories, products, users, draft>>
storeVars == <<files, db, loader>>
driverVars ==
  <<pc, counterVars, sessions, transactions, sessionVars, transaction_items,
    valid, line_idx, products_in_txn, stock_before, settlement>>
vars ==
  <<current_stock, catalogVars, pc, counterVars, sessions, transactions,
    sessionVars, settleVars, settlement, ledgerVars, timingVars,
    generationVars, storeVars>>

\* What the steps of the driver, and of update_stock, leave alone.
besideDriver == <<ledgerVars, timingVars, generationVars, storeVars>>
besideLedger ==
  <<catalogVars, driverVars, timingVars, generationVars, storeVars>>
besideTiming == <<ledgerVars, generationVars, storeVars>>
besideGeneration ==
  <<current_stock, catalogVars, counterVars, sessions, transactions,
    sessionVars, settleVars, settlement, ledgerVars, timingVars, storeVars>>
besideStore ==
  <<current_stock, catalogVars, counterVars, sessions, transactions,
    sessionVars, settleVars, settlement, ledgerVars, timingVars,
    generationVars>>

\* ------------------------------------------------------------ mutations
\* A definition introduced by "Slip:" is a plausible slip in the code modelled
\* by the definition that follows it; a property that says something about
\* the code fails when the two are exchanged.

\* ------------------------------------------------------ InventoryManager
\* Slip: the stock test of line 47 left out.
update_stock_unchecked(stock, product_id, quantity) ==
  IF product_id \notin DOMAIN stock
    THEN [ok |-> FALSE, stock |-> stock]
    ELSE [ok |-> TRUE, stock |-> [stock EXCEPT ![product_id] = @ - quantity]]

\* Slip: `>` for `>=` at line 47.
update_stock_strict(stock, product_id, quantity) ==
  IF product_id \notin DOMAIN stock
    THEN [ok |-> FALSE, stock |-> stock]
    ELSE IF stock[product_id] > quantity
      THEN [ok |-> TRUE,
            stock |-> [stock EXCEPT ![product_id] = @ - quantity]]
      ELSE [ok |-> FALSE, stock |-> stock]

\* update_stock as a function of the ledger: the returned flag and the
\* ledger after the call.
update_stock(stock, product_id, quantity) ==
  IF product_id \notin DOMAIN stock
    THEN [ok |-> FALSE, stock |-> stock]
    ELSE IF stock[product_id] >= quantity
      THEN [ok |-> TRUE,
            stock |-> [stock EXCEPT ![product_id] = @ - quantity]]
      ELSE [ok |-> FALSE, stock |-> stock]

\* What one update_stock call did: arguments, ledger before and after, result.
CallRecord(stock, product_id, quantity) ==
  [product_id |-> product_id, quantity |-> quantity, before |-> stock,
   after |-> update_stock(stock, product_id, quantity).stock,
   ok |-> update_stock(stock, product_id, quantity).ok]

NoCall ==
  [product_id |-> None, quantity |-> 0, before |-> <<>>, after |-> <<>>,
   ok |-> FALSE]

\* ---------------------------------------------------- determine_page_type
\* Slip: the row of checkout used for cart.
determine_page_type_cart_as_checkout(position, previous_pages) ==
  IF position = 0 THEN {"home", "search", "category_listing"}
  ELSE IF previous_pages = <<>> THEN {"home"}
  ELSE LET prev_page == previous_pages[Len(previous_pages)].page_type IN
    CASE prev_page = "home" ->
           {"category_listing", "search", "product_detail"}
      [] prev_page = "category_listing" ->
           {"product_detail", "category_listing", "search", "home"}
      [] prev_page = "search" ->
           {"product_detail", "search", "category_listing", "home"}
      [] prev_page = "product_detail" ->
           {"product_detail", "cart", "category_listing", "search", "home"}
      [] prev_page = "cart" -> {"confirmation", "cart", "home"}
      [] prev_page = "checkout" -> {"confirmation", "cart", "home"}
      [] prev_page = "confirmation" ->
           {"home", "product_detail", "category_listing"}
      [] OTHER -> {"home"}

\* The set of page types random.choice / random.choices can return (every
\* weight in the table is positive).
determine_page_type(position, previous_pages) ==
  IF position = 0 THEN {"home", "search", "category_listing"}
  ELSE IF previous_pages = <<>> THEN {"home"}
  ELSE LET prev_page == previous_pages[Len(previous_pages)].page_type IN
    CASE prev_page = "home" ->
           {"category_listing", "search", "product_detail"}
      [] prev_page = "category_listing" ->
           {"product_detail", "category_listing", "search", "home"}
      [] prev_page = "search" ->
           {"product_detail", "search", "category_listing", "home"}
      [] prev_page = "product_detail" ->
           {"product_detail", "cart", "category_listing", "search", "home"}
      [] prev_page = "cart" ->
           {"checkout", "product_detail", "category_listing", "home"}
      [] prev_page = "checkout" -> {"confirmation", "cart", "home"}
      [] prev_page = "confirmation" ->
           {"home", "product_detail", "category_listing"}
      [] OTHER -> {"home"}

\* ------------------------------------------------------- get_page_content
Eligible(stock, active) == {p \in Products : active[p] /\ stock[p] > 0}

\* The products the retry loop can return from attempt number `attempts` on:
\* an eligible product at this attempt, or, when an ineligible product can be
\* drawn, whatever the later attempts return; any product after the last.
RECURSIVE PickProduct(_, _, _)
PickProduct(attempts, stock, active) ==
  IF attempts < MaxAttempts
    THEN Eligible(stock, active) \cup
         (IF Products \ Eligible(stock, active) # {}
            THEN PickProduct(attempts + 1, stock, active)
            ELSE {})
    ELSE Products

\* Slip: the category of a listing drawn by an index one too far.
get_page_content_past_end(page_type, stock, active, cat_of) ==
  IF page_type = "product_detail"
    THEN {[product |-> p, category |-> cat_of[p]] :
            p \in PickProduct(0, stock, active)}
  ELSE IF page_type = "category_listing"
    THEN {[product |-> None, category |-> c + 1] : c \in Categories}
  ELSE {[product |-> None, category |-> None]}

\* The set of (product, category) pairs get_page_content can return.
get_page_content(page_type, stock, active, cat_of) ==
  IF page_type = "product_detail"
    THEN {[product |-> p, category |-> cat_of[p]] :
            p \in PickProduct(0, stock, active)}
  ELSE IF page_type = "category_listing"
    THEN {[product |-> None, category |-> c] : c \in Categories}
  ELSE {[product |-> None, category |-> None]}

\* ------------------------------------------------------------ cart helpers
\* cart_contents is a Python dict, which iterates in insertion order: a
\* sequence of lines [product_id, quantity, price], one per product.
InCart(cart, prod_id) == \E i \in 1..Len(cart) : cart[i].product_id = prod_id

\* Lines 291-297: create the line with quantity 0 when absent, then add.
add_to_cart(cart, prod_id, price, amount) ==
  LET withLine ==
        IF InCart(cart, prod_id) THEN cart
        ELSE Append(cart,
                    [product_id |-> prod_id, quantity |-> 0, price |-> price])
  IN [i \in 1..Len(withLine) |->
        IF withLine[i].product_id = prod_id
          THEN [withLine[i] EXCEPT !.quantity = @ + amount]
          ELSE withLine[i]]

\* Slip: the quantity reserved from the ledger when it is put in the cart.
ledger_after_add_reserving(stock, prod_id, amount) ==
  update_stock(stock, prod_id, amount).stock

\* Lines 286-297: the ledger after the cart branch of a page view, which
\* holds no update_stock call and no assignment to current_stock.
ledger_after_add(stock, prod_id, amount) == stock

\* Line 324.
\* Slip: the cart test of line 324 negated.
conversion_status_negated(conv, cart) ==
  IF conv THEN "converted" ELSE IF cart = <<>> THEN "abandoned" ELSE "browsed"

conversion_status(conv, cart) ==
  IF conv THEN "converted" ELSE IF cart # <<>> THEN "abandoned" ELSE "browsed"

\* Line 323: only the lines with quantity > 0 are exported.
PositiveLines(cart) == SelectSeq(cart, LAMBDA l : l.quantity > 0)

\* Slip: the line item written for one unit whatever the quantity.
LineItemSingle(prod_id, quantity, price) ==
  [product_id |-> prod_id, quantity |-> 1, unit_price |-> price,
   subtotal |-> price]

\* Lines 341-346 and 386-391 (amounts in cents, so quantity * price is exact).
LineItem(prod_id, quantity, price) ==
  [product_id |-> prod_id, quantity |-> quantity, unit_price |-> price,
   subtotal |-> quantity * price]

\* Slip: random.choices for random.sample, a product can be drawn twice.
SamplesRepeating(k) == [1..k -> Products]

\* random.sample(products, k): the orderings of k distinct products.
Samples(k) ==
  {s \in [1..k -> Products] : \A i, j \in 1..k : i # j => s[i] # s[j]}

Min(a, b) == IF a < b THEN a ELSE b

\* ------------------------------------------------------------------- Init
Actors == 1..NumActors
Idle == [pc |-> "idle", product_id |-> None, quantity |-> 0, tmp |-> 0,
         ok |-> FALSE, before |-> <<>>]

\* No actor is inside the ledger (the driver calls update_stock directly).
NoActors ==
  /\ lock = None /\ actor = [a \in Actors |-> Idle] /\ calls = 0
  /\ granted = [p \in Products |-> 0]

NoSession ==
  /\ user = None /\ session_id = None /\ num_pages = 0 /\ page_idx = 0
  /\ page_views = <<>> /\ viewed_products = {} /\ cart_contents = <<>>
  /\ converted = FALSE

\* The session timing is followed in SpecTiming only.
NoTiming == session_start = 0 /\ session_duration = 0

\* The export and the load are followed in SpecStore only.
Collections == {"categories", "products", "users", "transactions", "sessions"}
NoLoader == [i |-> 0, session_files |-> <<>>, data |-> <<>>]
NoStore ==
  /\ files = <<>>
  /\ db = [c \in Collections |-> <<>>]
  /\ loader = NoLoader

\* The generation of the collections is followed in SpecCatalog only.
Runs == 1..2
NoDraft ==
  [category |-> None, base_price |-> 0, initial_date |-> 0,
   price_history |-> <<>>, changes_left |-> 0]

NoGeneration ==
  /\ run_clock = [r \in Runs |-> 0]
  /\ categories = [r \in Runs |-> <<>>]
  /\ products = [r \in Runs |-> <<>>]
  /\ users = [r \in Runs |-> <<>>]
  /\ draft = [r \in Runs |-> NoDraft]

NoSettlement ==
  /\ transaction_items = <<>> /\ valid = TRUE /\ line_idx = 0
  /\ products_in_txn = <<>> /\ stock_before = <<>> /\ last_call = NoCall

\* The state when the loop at line 248 is first reached: the catalog is
\* generated (lines 160-208), the ledger wraps it, the collections are empty.
Init ==
  /\ initial_stock \in [Products -> MinInitStock..MaxInitStock]
  /\ current_stock = initial_stock
  /\ is_active \in [Products -> BOOLEAN]
  /\ category_id \in [Products -> Categories]
  /\ pc = "loop"
  /\ iteration = 0 /\ session_counter = 0 /\ transaction_counter = 0
  /\ sessions = <<>> /\ transactions = <<>>
  /\ NoSession /\ NoSettlement
  /\ settlement = <<>>
  /\ NoActors /\ NoTiming /\ NoGeneration /\ NoStore

\* ---------------------------------------------------------------- driver
\* Slip: `and` for `or` between the two target tests of line 248.
LoopConditionBothUnmet ==
  /\ session_counter < NUM_SESSIONS /\ transaction_counter < NUM_TRANSACTIONS
  /\ iteration < MAX_ITERATIONS

\* Line 248.
LoopCondition ==
  /\ session_counter < NUM_SESSIONS \/ transaction_counter < NUM_TRANSACTIONS
  /\ iteration < MAX_ITERATIONS

\* Line 248, condition false.
LoopExit ==
  /\ pc = "loop" /\ ~LoopCondition
  /\ pc' = "done"
  /\ UNCHANGED besideDriver
  /\ UNCHANGED <<current_stock, catalogVars, counterVars, sessions,
                 transactions, sessionVars, settleVars, settlement>>

\* Lines 249-268: a new iteration that generates a session.
BeginSession ==
  /\ pc = "loop" /\ LoopCondition /\ session_counter < NUM_SESSIONS
  /\ iteration' = iteration + 1
  /\ user' \in Users
  /\ session_id' = session_counter + 1
  /\ num_pages' \in 1..MaxPages
  /\ page_idx' = 0 /\ page_views' = <<>> /\ viewed_products' = {}
  /\ cart_contents' = <<>> /\ converted' = FALSE
  /\ pc' = "page"
  /\ UNCHANGED besideDriver
  /\ UNCHANGED <<current_stock, catalogVars, session_counter,
                 transaction_counter, sessions, transactions, settleVars,
                 settlement>>

\* Lines 249-252: a new iteration with the session target already met.
SkipSession ==
  /\ pc = "loop" /\ LoopCondition /\ ~(session_counter < NUM_SESSIONS)
  /\ iteration' = iteration + 1
  /\ pc' = "extra"
  /\ UNCHANGED besideDriver
  /\ UNCHANGED <<current_stock, catalogVars, session_counter,
                 transaction_counter, sessions, transactions, sessionVars,
                 settleVars, settlement>>

\* Slip: `converted = random.random() < 0.7`, the draw assigned to the flag.
NextConvertedOverwrite(conv, page_type, cart, draw) ==
  IF page_type \in {"checkout", "confirmation"} /\ cart # <<>>
    THEN draw
    ELSE conv

\* Slip: the conversion draw made on the cart page as well.
NextConvertedOnCart(conv, page_type, cart, draw) ==
  IF page_type \in {"cart", "checkout", "confirmation"} /\ cart # <<>>
    THEN IF draw \/ page_type = "cart" THEN TRUE ELSE conv
    ELSE conv

\* Lines 300-302: the conversion draw of one page; draw is random() < 0.7.
NextConverted(conv, page_type, cart, draw) ==
  IF page_type \in {"checkout", "confirmation"} /\ cart # <<>>
    THEN IF draw THEN TRUE ELSE conv
    ELSE conv

\* Lines 270-302: one pass of the page loop.  determine_page_type reads only
\* the last entry of page_views; with keep_history the whole sequence is
\* kept (SpecJourney), without it only that last entry (Spec).
PageStep(keep_history) ==
  /\ pc = "page" /\ page_idx < num_pages
  /\ \E page_type \in determine_page_type(page_idx, page_views) :
     \E content \in get_page_content(page_type, current_stock, is_active,
                                     category_id) :
     \* amount = 0: the draw of line 290 is >= 0.20, nothing is added
     \E amount \in
          IF content.product # None /\ page_type = "product_detail"
            THEN {0} \cup MinAddQty..MaxAddQty ELSE {0} :
     \E draw \in
          IF page_type \in {"checkout", "confirmation"}
            THEN BOOLEAN ELSE {FALSE} :
       LET product == content.product
           cart ==
             IF amount > 0
               THEN add_to_cart(cart_contents, product, PriceOf(product),
                                amount)
               ELSE cart_contents
           \* with keep_history the view also tells (history) the quantity
           \* put in the cart at this page
           page_view ==
             IF keep_history
               THEN [page_type |-> page_type, product_id |-> product,
                     category_id |-> content.category, added |-> amount]
               ELSE [page_type |-> page_type, product_id |-> product,
                     category_id |-> content.category]
       IN /\ page_views' =
               IF keep_history THEN Append(page_views, page_view)
               ELSE <<page_view>>
          /\ viewed_products' =
               IF product # None THEN viewed_products \cup {product}
               ELSE viewed_products
          /\ cart_contents' = cart
          /\ converted' = NextConverted(converted, page_type, cart, draw)
          /\ current_stock' = ledger_after_add(current_stock, product, amount)
  /\ page_idx' = page_idx + 1
  /\ UNCHANGED besideDriver
  /\ UNCHANGED <<catalogVars, pc, counterVars, sessions,
                 transactions, user, session_id, num_pages, settleVars,
                 settlement>>

PageView == PageStep(FALSE)

\* The session locals are dead once the iteration is past the settlement
\* (the next session overwrites them before reading): they are reset, which
\* removes states that differ only in dead values.
ClearSession ==
  /\ user' = None /\ session_id' = None /\ num_pages' = 0 /\ page_idx' = 0
  /\ page_views' = <<>> /\ viewed_products' = {} /\ cart_contents' = <<>>
  /\ converted' = FALSE

ClearSettlement ==
  /\ transaction_items' = <<>> /\ valid' = TRUE /\ line_idx' = 0
  /\ products_in_txn' = <<>> /\ stock_before' = <<>> /\ last_call' = NoCall

\* Lines 309-326: the session record.  Nothing reads a record once it is
\* appended; without keep_history (Spec) only its identifiers and status are
\* kept, with it (SpecJourney) also the collected content.
SessionRecord(keep_history) ==
  IF keep_history
    THEN [session_id |-> session_id, user_id |-> user,
          viewed_products |-> viewed_products, page_views |-> page_views,
          cart_contents |-> PositiveLines(cart_contents),
          conversion_status |-> conversion_status(converted, cart_contents)]
    ELSE [session_id |-> session_id, user_id |-> user,
          conversion_status |-> conversion_status(converted, cart_contents)]

\* Lines 305-331: record the session, then enter settlement when converted
\* and the transaction target is not yet met.
AppendStep(keep_history) ==
  /\ pc = "page" /\ page_idx = num_pages
  /\ sessions' = Append(sessions, SessionRecord(keep_history))
  /\ session_counter' = session_counter + 1
  /\ IF converted /\ transaction_counter < NUM_TRANSACTIONS
       THEN /\ pc' = "settle"
            /\ transaction_items' = <<>> /\ valid' = TRUE /\ line_idx' = 1
            /\ stock_before' = current_stock
            /\ settlement' = Append(settlement, "running")
            /\ UNCHANGED sessionVars
       ELSE /\ pc' = "extra"
            /\ UNCHANGED <<transaction_items, valid, line_idx, stock_before>>
            /\ settlement' =
                 Append(settlement, IF converted THEN "skipped" ELSE "none")
            /\ ClearSession
  /\ UNCHANGED besideDriver
  /\ UNCHANGED <<current_stock, catalogVars, iteration, transaction_counter,
                 transactions, products_in_txn, last_call>>

AppendSession == AppendStep(FALSE)

\* Lines 336-350: one cart line of the session-linked settlement.
SettleLine ==
  /\ pc = "settle" /\ valid /\ line_idx <= Len(cart_contents)
  /\ LET details == cart_contents[line_idx]
         res == update_stock(current_stock, details.product_id,
                             details.quantity)
     IN IF details.quantity > 0
          THEN /\ current_stock' = res.stock
               /\ last_call' =
                    CallRecord(current_stock, details.product_id,
                               details.quantity)
               /\ IF res.ok
                    THEN /\ transaction_items' =
                              Append(transaction_items,
                                     LineItem(details.product_id,
                                              details.quantity,
                                              details.price))
                         /\ line_idx' = line_idx + 1
                         /\ UNCHANGED valid
                    ELSE /\ valid' = FALSE
                         /\ UNCHANGED <<transaction_items, line_idx>>
          ELSE /\ line_idx' = line_idx + 1
               /\ last_call' = NoCall
               /\ UNCHANGED <<current_stock, transaction_items, valid>>
  /\ UNCHANGED besideDriver
  /\ UNCHANGED <<catalogVars, pc, counterVars, sessions, transactions,
                 sessionVars, products_in_txn, stock_before, settlement>>

\* round(x, 2) of an amount of n / 100 cents: the nearest whole number of
\* cents; on a tie the binary value of the float decides, so either neighbour.
RoundCents(n) ==
  {q \in (n \div 100)..(n \div 100 + 1) : 2 * n - 200 * q \in -100..100}

\* The discount of lines 355-358 and 396-399: no discount, or one of the
\* rates (in percent) applied to the subtotal (in cents) and rounded.
DiscountRates == {5, 10, 15, 20}
Discounts(subtotal) ==
  {0} \cup UNION {RoundCents(subtotal * r) : r \in DiscountRates}

RECURSIVE SumSubtotals(_)
SumSubtotals(items) ==
  IF items = <<>> THEN 0 ELSE Head(items).subtotal + SumSubtotals(Tail(items))

\* Slip: the session link of line 364 left out.
TransactionUnlinked(txn_id, sess_id, user_id, items, discount, keep_history) ==
  IF keep_history
    THEN [transaction_id |-> txn_id, session_id |-> None, user_id |-> user_id,
          items |-> items, subtotal |-> SumSubtotals(items),
          discount |-> discount, total |-> SumSubtotals(items) - discount]
    ELSE [transaction_id |-> txn_id, session_id |-> None, user_id |-> user_id,
          items |-> items]

\* Slip: the discount added to the subtotal instead of subtracted.
TransactionAdding(txn_id, sess_id, user_id, items, discount, keep_history) ==
  IF keep_history
    THEN [transaction_id |-> txn_id, session_id |-> sess_id,
          user_id |-> user_id, items |-> items,
          subtotal |-> SumSubtotals(items), discount |-> discount,
          total |-> SumSubtotals(items) + discount]
    ELSE [transaction_id |-> txn_id, session_id |-> sess_id,
          user_id |-> user_id, items |-> items]

\* Lines 362-373 and 403-417: the transaction record.  As for the session
\* record, nothing reads it once appended; without keep_history (Spec) the
\* amounts, which are functions of the items and of the discount draw, are
\* left out of the record, with it (SpecJourney) they are kept.
Transaction(txn_id, sess_id, user_id, items, discount, keep_history) ==
  IF keep_history
    THEN [transaction_id |-> txn_id, session_id |-> sess_id,
          user_id |-> user_id, items |-> items,
          subtotal |-> SumSubtotals(items), discount |-> discount,
          total |-> SumSubtotals(items) - discount]
    ELSE [transaction_id |-> txn_id, session_id |-> sess_id,
          user_id |-> user_id, items |-> items]

\* Slip: `if transaction_items:` for `if valid and transaction_items:`.
CommitIgnoringValid(is_valid, items) == items # <<>>

\* Line 352: the session-linked transaction is recorded only when every
\* reservation succeeded and there is at least one line item.
CommitOk(is_valid, items) == is_valid /\ items # <<>>

\* Lines 352-374: after the cart loop, record the transaction when valid.
CommitStep(keep_history) ==
  /\ pc = "settle" /\ (~valid \/ line_idx > Len(cart_contents))
  /\ IF CommitOk(valid, transaction_items)
       THEN \E discount \in Discounts(SumSubtotals(transaction_items)) :
              /\ transactions' =
                   Append(transactions,
                          Transaction(Len(transactions) + 1, session_id,
                                      user, transaction_items, discount,
                                      keep_history))
              /\ transaction_counter' = transaction_counter + 1
              /\ settlement' =
                   [settlement EXCEPT ![Len(settlement)] = "committed"]
       ELSE /\ UNCHANGED <<transactions, transaction_counter>>
            /\ settlement' =
                 [settlement EXCEPT
                    ![Len(settlement)] = IF valid THEN "empty" ELSE "aborted"]
  /\ pc' = "extra"
  /\ ClearSession /\ ClearSettlement
  /\ UNCHANGED besideDriver
  /\ UNCHANGED <<current_stock, catalogVars, iteration, session_counter,
                 sessions>>

SettleCommit == CommitStep(FALSE)

\* Slip: the quota test of line 377 left out.
QuotaIgnored(counter) == TRUE

\* Slip: the is_active test of line 383 left out.
SellableAlways(active, product) == TRUE

\* Line 377: the quota test of the independent path (the draw
\* random() < 0.2 is the choice between ExtraBegin and ExtraSkip).
QuotaLeft(counter) == counter < NUM_TRANSACTIONS

\* Line 383: only active products are offered to the ledger.
Sellable(active, product) == active[product]

\* Lines 377-381: decide on an independent transaction and draw its basket.
ExtraBegin ==
  /\ pc = "extra" /\ QuotaLeft(transaction_counter)
  /\ user' \in Users
  /\ products_in_txn' \in Samples(Min(MaxBasket, NUM_PRODUCTS))
  /\ transaction_items' = <<>> /\ line_idx' = 1
  /\ stock_before' = current_stock /\ last_call' = NoCall
  /\ pc' = "extra_item"
  /\ UNCHANGED besideDriver
  /\ UNCHANGED <<current_stock, catalogVars, counterVars, sessions,
                 transactions, session_id, num_pages, page_idx, page_views,
                 viewed_products, cart_contents, converted, valid,
                 settlement>>

\* Line 377, condition false: the target is met or the draw is >= 0.2.
ExtraSkip ==
  /\ pc = "extra"
  /\ pc' = "loop"
  /\ UNCHANGED besideDriver
  /\ UNCHANGED <<current_stock, catalogVars, counterVars, sessions,
                 transactions, sessionVars, settleVars, settlement>>

\* Lines 382-391: one sampled product of the independent basket.
ExtraItem ==
  /\ pc = "extra_item" /\ line_idx <= Len(products_in_txn)
  /\ LET product == products_in_txn[line_idx] IN
       IF Sellable(is_active, product)
         THEN \E quantity \in MinAddQty..MaxAddQty :
                LET res == update_stock(current_stock, product, quantity) IN
                  /\ current_stock' = res.stock
                  /\ last_call' = CallRecord(current_stock, product, quantity)
                  /\ transaction_items' =
                       IF res.ok
                         THEN Append(transaction_items,
                                     LineItem(product, quantity,
                                              PriceOf(product)))
                         ELSE transaction_items
         ELSE /\ last_call' = NoCall
              /\ UNCHANGED <<current_stock, transaction_items>>
  /\ line_idx' = line_idx + 1
  /\ UNCHANGED besideDriver
  /\ UNCHANGED <<catalogVars, pc, counterVars, sessions, transactions,
                 sessionVars, valid, products_in_txn, stock_before,
                 settlement>>

\* Lines 393-418: record the independent transaction when a line survived.
ExtraCommitStep(keep_history) ==
  /\ pc = "extra_item" /\ line_idx > Len(products_in_txn)
  /\ IF transaction_items # <<>>
       THEN \E discount \in Discounts(SumSubtotals(transaction_items)) :
              /\ transactions' =
                   Append(transactions,
                          Transaction(Len(transactions) + 1, None, user,
                                      transaction_items, discount,
                                      keep_history))
              /\ transaction_counter' = transaction_counter + 1
       ELSE UNCHANGED <<transactions, transaction_counter>>
  /\ pc' = "loop"
  /\ ClearSession /\ ClearSettlement
  /\ UNCHANGED besideDriver
  /\ UNCHANGED <<current_stock, catalogVars, iteration, session_counter,
                 sessions, settlement>>

ExtraCommit == ExtraCommitStep(FALSE)

Next ==
  \/ LoopExit \/ BeginSession \/ SkipSession
  \/ PageView \/ AppendSession
  \/ SettleLine \/ SettleCommit
  \/ ExtraBegin \/ ExtraSkip \/ ExtraItem \/ ExtraCommit

Spec == Init /\ [][Next]_vars

\* ------------------------------------------------------- one journey
\* The session part of the first iteration (lines 252-374) with the whole
\* page-view sequence and the full session record kept.
JourneyPage == PageStep(TRUE)
JourneyAppend == AppendStep(TRUE)
JourneyCommit == CommitStep(TRUE)

NextJourney ==
  \/ BeginSession \/ JourneyPage \/ JourneyAppend
  \/ SettleLine \/ JourneyCommit

SpecJourney == Init /\ [][NextJourney]_vars

\* ------------------------------------------------- independent baskets
\* The loop from the iteration on at which the session target is met (here
\* by sessions that put nothing in a cart): the iterations left generate
\* independent transactions only.  The initial stock goes up to BasketStock,
\* so that a line of MaxAddQty units can be granted.
InitBasket ==
  /\ initial_stock \in [Products -> MinInitStock..BasketStock]
  /\ current_stock = initial_stock
  /\ is_active \in [Products -> BOOLEAN]
  /\ category_id \in [Products -> Categories]
  /\ pc = "loop"
  /\ iteration = NUM_SESSIONS /\ session_counter = NUM_SESSIONS
  /\ transaction_counter = 0
  /\ \E u \in Users :
       sessions = [i \in 1..NUM_SESSIONS |->
                    [session_id |-> i, user_id |-> u,
                     conversion_status |-> "browsed"]]
  /\ transactions = <<>>
  /\ NoSession /\ NoSettlement
  /\ settlement = [i \in 1..NUM_SESSIONS |-> "none"]
  /\ NoActors /\ NoTiming /\ NoGeneration /\ NoStore

NextBasket ==
  \/ LoopExit \/ SkipSession
  \/ ExtraBegin \/ ExtraSkip \/ ExtraItem \/ ExtraCommit

SpecBasket == InitBasket /\ [][NextBasket]_vars

\* ------------------------------------------------------- one iteration
\* The first AmountIterations iterations of the loop, both settlement paths,
\* with the amounts kept in the transaction records.
FirstSession == iteration < AmountIterations /\ BeginSession
AmountsCommit == CommitStep(TRUE)
AmountsExtraCommit == ExtraCommitStep(TRUE)

NextAmounts ==
  \/ FirstSession \/ PageView \/ AppendSession
  \/ SettleLine \/ AmountsCommit
  \/ ExtraBegin \/ ExtraSkip \/ ExtraItem \/ AmountsExtraCommit

SpecAmounts == Init /\ [][NextAmounts]_vars

\* ------------------------------------------------- concurrent ledger use
\* InventoryManager.update_stock (lines 43-50) step by step, for several
\* actors on one ledger.  `with self.lock` is Acquire ... Release; the
\* statement `current_stock -= quantity` reads the counter and stores the
\* difference in two steps.
UnknownProduct == NUM_PRODUCTS + 1

\* InventoryManager(products) wraps whatever product list it is given.
InitLedger ==
  /\ initial_stock \in [Products -> 0..MaxLedgerStock]
  /\ current_stock = initial_stock
  /\ is_active = [p \in Products |-> TRUE]
  /\ category_id = [p \in Products |-> 1]
  /\ pc = "ledger"
  /\ iteration = 0 /\ session_counter = 0 /\ transaction_counter = 0
  /\ sessions = <<>> /\ transactions = <<>>
  /\ NoSession /\ NoSettlement
  /\ settlement = <<>>
  /\ NoActors /\ NoTiming /\ NoGeneration /\ NoStore

\* An actor calls update_stock(product_id, quantity).
Call(a) ==
  /\ actor[a].pc = "idle" /\ calls < MaxCalls
  /\ \E product_id \in Products \cup {UnknownProduct},
        quantity \in MinAddQty..MaxAddQty :
       actor' = [actor EXCEPT ![a] =
                   [Idle EXCEPT !.pc = "acquire", !.product_id = product_id,
                                !.quantity = quantity]]
  /\ calls' = calls + 1
  /\ UNCHANGED <<current_stock, lock, granted, last_call>>
  /\ UNCHANGED besideLedger

\* Slip: update_stock without `with self.lock`.
LockIgnored(holder) == TRUE

\* Line 44: the lock is granted to one holder at a time.
LockFree(holder) == holder = None

Acquire(a) ==
  /\ actor[a].pc = "acquire" /\ LockFree(lock)
  /\ lock' = a
  /\ actor' = [actor EXCEPT ![a].pc = "check", ![a].before = current_stock]
  /\ UNCHANGED <<current_stock, calls, granted, last_call>>
  /\ UNCHANGED besideLedger

\* Lines 45-47 and 50: the two tests of update_stock.
Check(a) ==
  /\ actor[a].pc = "check"
  /\ actor' =
       [actor EXCEPT
          ![a].pc =
            IF update_stock(current_stock, actor[a].product_id,
                            actor[a].quantity).ok
              THEN "read" ELSE "release",
          ![a].ok = FALSE]
  /\ UNCHANGED <<current_stock, lock, calls, granted, last_call>>
  /\ UNCHANGED besideLedger

\* Line 48, the read of `-=`.
Read(a) ==
  /\ actor[a].pc = "read"
  /\ actor' = [actor EXCEPT ![a].pc = "write",
                            ![a].tmp = current_stock[actor[a].product_id]]
  /\ UNCHANGED <<current_stock, lock, calls, granted, last_call>>
  /\ UNCHANGED besideLedger

\* Line 48, the store of `-=`, and line 49.
Write(a) ==
  /\ actor[a].pc = "write"
  /\ current_stock' =
       [current_stock EXCEPT
          ![actor[a].product_id] = actor[a].tmp - actor[a].quantity]
  /\ actor' = [actor EXCEPT ![a].pc = "release", ![a].ok = TRUE]
  /\ UNCHANGED <<lock, calls, granted, last_call>>
  /\ UNCHANGED besideLedger

\* Leaving the `with` block: the lock is released and the call returns.
Release(a) ==
  /\ actor[a].pc = "release"
  /\ lock' = IF lock = a THEN None ELSE lock
  /\ last_call' =
       [product_id |-> actor[a].product_id, quantity |-> actor[a].quantity,
        before |-> actor[a].before, after |-> current_stock,
        ok |-> actor[a].ok]
  /\ granted' =
       IF actor[a].ok
         THEN [granted EXCEPT ![actor[a].product_id] = @ + actor[a].quantity]
         ELSE granted
  /\ actor' = [actor EXCEPT ![a] = Idle]
  /\ UNCHANGED <<current_stock, calls>>
  /\ UNCHANGED besideLedger

NextLedger ==
  \E a \in Actors :
    \/ Call(a) \/ Acquire(a) \/ Check(a) \/ Read(a) \/ Write(a) \/ Release(a)

SpecLedger == InitLedger /\ [][NextLedger]_vars

\* ---------------------------------------------------------------- timing
\* The timing of one session, with the script's own ranges for the number
\* of pages and the duration: lines 257-283 and 309-314 reduced to the
\* timestamps.  Times are whole seconds from the earliest session start
\* (timedelta arithmetic on datetimes is exact).
Max(a, b) == IF a > b THEN a ELSE b

\* Slip: the per-page step rounded up instead of down.
TimestampCeil(start, idx, duration, pages) ==
  start + idx * ((duration + Max(pages, 1) - 1) \div Max(pages, 1))

\* Lines 275-277.
Timestamp(start, idx, duration, pages) ==
  start + idx * (duration \div Max(pages, 1))

\* Line 313.
EndTime(start, duration) == start + duration

InitTiming ==
  /\ initial_stock = [p \in Products |-> MinInitStock]
  /\ current_stock = initial_stock
  /\ is_active = [p \in Products |-> TRUE]
  /\ category_id = [p \in Products |-> 1]
  /\ pc = "timing"
  /\ iteration = 1 /\ session_counter = 0 /\ transaction_counter = 0
  /\ sessions = <<>> /\ transactions = <<>>
  /\ user = None /\ session_id = None
  /\ session_start \in 0..MaxStart
  /\ session_duration \in MinDuration..MaxDuration
  /\ num_pages \in MinNumPages..MaxNumPages
  /\ page_idx = 0 /\ page_views = <<>> /\ viewed_products = {}
  /\ cart_contents = <<>> /\ converted = FALSE
  /\ NoSettlement
  /\ settlement = <<>>
  /\ NoActors /\ NoGeneration /\ NoStore

\* Lines 270-283: one page view, its timestamp only.
StampPage ==
  /\ pc = "timing" /\ page_idx < num_pages
  /\ page_views' =
       Append(page_views,
              [timestamp |-> Timestamp(session_start, page_idx,
                                       session_duration, num_pages)])
  /\ page_idx' = page_idx + 1
  /\ UNCHANGED <<current_stock, catalogVars, pc, counterVars, sessions,
                 transactions, user, session_id, num_pages, viewed_products,
                 cart_contents, converted, settleVars, settlement,
                 timingVars, besideTiming>>

\* Lines 309-328: the session record, its times only.
RecordTimes ==
  /\ pc = "timing" /\ page_idx = num_pages
  /\ sessions' =
       Append(sessions,
              [start_time |-> session_start,
               end_time |-> EndTime(session_start, session_duration),
               duration_seconds |-> session_duration,
               page_views |-> page_views])
  /\ session_counter' = session_counter + 1
  /\ pc' = "timed"
  /\ UNCHANGED <<current_stock, catalogVars, iteration, transaction_counter,
                 transactions, sessionVars, settleVars, settlement,
                 timingVars, besideTiming>>

NextTiming == StampPage \/ RecordTimes

SpecTiming == InitTiming /\ [][NextTiming]_vars

\* ------------------------------------------------------- page-type trail
\* The page-view loop of one session (lines 264-283) for sessions of up to
\* MaxTrail pages, each page view with its page type only: the type is all
\* determine_page_type reads of the earlier views.
InitTrail ==
  /\ initial_stock = [p \in Products |-> MinInitStock]
  /\ current_stock = initial_stock
  /\ is_active = [p \in Products |-> TRUE]
  /\ category_id = [p \in Products |-> 1]
  /\ pc = "trail"
  /\ iteration = 1 /\ session_counter = 0 /\ transaction_counter = 0
  /\ sessions = <<>> /\ transactions = <<>>
  /\ user = None /\ session_id = None
  /\ num_pages \in MinNumPages..MaxTrail
  /\ page_idx = 0 /\ page_views = <<>> /\ viewed_products = {}
  /\ cart_contents = <<>> /\ converted = FALSE
  /\ NoSettlement
  /\ settlement = <<>>
  /\ NoActors /\ NoTiming /\ NoGeneration /\ NoStore

\* Lines 270-283: one page view, its page type only.
TrailPage ==
  /\ pc = "trail" /\ page_idx < num_pages
  /\ \E page_type \in determine_page_type(page_idx, page_views) :
       page_views' = Append(page_views, [page_type |-> page_type])
  /\ page_idx' = page_idx + 1
  /\ UNCHANGED <<current_stock, catalogVars, pc, counterVars, sessions,
                 transactions, user, session_id, num_pages, viewed_products,
                 cart_contents, converted, settleVars, settlement,
                 timingVars, besideTiming>>

\* Lines 309-328: the session record, its page views only.
RecordTrail ==
  /\ pc = "trail" /\ page_idx = num_pages
  /\ sessions' = Append(sessions, [page_views |-> page_views])
  /\ session_counter' = session_counter + 1
  /\ pc' = "trailed"
  /\ UNCHANGED <<current_stock, catalogVars, iteration, transaction_counter,
                 transactions, sessionVars, settleVars, settlement,
                 timingVars, besideTiming>>

NextTrail == TrailPage \/ RecordTrail

SpecTrail == InitTrail /\ [][NextTrail]_vars

\* --------------------------------------------------------------- catalog
\* Lines 138-232: the generation of categories, products and users, by two
\* runs of the script with the same seed and configuration.  With the same
\* seed the generators (random, Faker) return the same raw draws in both
\* runs, so one step generates the same record in both from one choice of
\* draws; what a run makes of a draw depends on its own wall clock where
\* the code asks for it (datetime.now(), Faker's "now" and "-90d").  Dates
\* are whole days; each run is short against a day, so its clock is fixed.
Draws == 0..MaxDraw

\* random.randint(a, b) on the raw draw u.
RandInt(a, b, u) == a + (u % (b - a + 1))

\* Faker.date_time_between(start, end): randint over the timestamps.
date_time_between(start_date, end_date, u) == RandInt(start_date, end_date, u)

\* Line 167: the ends of uniform(5, 500), in cents.
BasePrices == {500, 50000}

\* Line 186: the ends of uniform(0.8, 1.2), in percent.
PriceFactors == {80, 120}

\* Line 194: list.sort(key=date), a stable sort.
RECURSIVE InsertByDate(_, _)
InsertByDate(sorted, entry) ==
  IF sorted = <<>> THEN <<entry>>
  ELSE IF sorted[Len(sorted)].date <= entry.date
    THEN Append(sorted, entry)
    ELSE Append(InsertByDate(SubSeq(sorted, 1, Len(sorted) - 1), entry),
                sorted[Len(sorted)])

RECURSIVE SortByDate(_)
SortByDate(history) ==
  IF history = <<>> THEN <<>>
  ELSE InsertByDate(SortByDate(SubSeq(history, 1, Len(history) - 1)),
                    history[Len(history)])

\* Slip: the first entry of the history read for the last.
CurrentPriceOfFirst(price_history) == price_history[1].price

\* Line 197: price_history[-1]["price"].
CurrentPrice(price_history) == price_history[Len(price_history)].price

InitCatalog ==
  /\ initial_stock = [p \in Products |-> MinInitStock]
  /\ current_stock = initial_stock
  /\ is_active = [p \in Products |-> TRUE]
  /\ category_id = [p \in Products |-> 1]
  /\ pc = "catalog"
  /\ iteration = 0 /\ session_counter = 0 /\ transaction_counter = 0
  /\ sessions = <<>> /\ transactions = <<>>
  /\ NoSession /\ NoSettlement
  /\ settlement = <<>>
  /\ NoActors /\ NoTiming
  /\ run_clock \in {c \in [Runs -> 0..MaxSkew] : c[1] = 0}
  /\ categories = [r \in Runs |-> <<>>]
  /\ products = [r \in Runs |-> <<>>]
  /\ users = [r \in Runs |-> <<>>]
  /\ draft = [r \in Runs |-> NoDraft]
  /\ NoStore

\* Lines 140-155: one category (names and margins are seeded draws that no
\* clock enters; they are left out).
GenCategory ==
  /\ pc = "catalog"
  /\ \A r \in Runs : Len(categories[r]) < NUM_CATEGORIES
  /\ \E n \in MinSubcategories..MaxSubcategories :
       categories' =
         [r \in Runs |->
            Append(categories[r],
                   [category_id |-> Len(categories[r]) + 1,
                    subcategories |-> n])]
  /\ UNCHANGED <<pc, run_clock, products, users, draft>>
  /\ UNCHANGED besideGeneration

\* Lines 161-178: start a product: category, base price, initial date.
BeginProduct ==
  /\ pc = "catalog"
  /\ \A r \in Runs :
       /\ Len(categories[r]) = NUM_CATEGORIES
       /\ Len(products[r]) < NUM_PRODUCTS
  /\ \E c \in 1..NUM_CATEGORIES, price \in BasePrices, u \in Draws,
        n \in 0..MaxPriceChanges :
       draft' =
         [r \in Runs |->
            LET product_creation_start == run_clock[r] - TIMESPAN_DAYS * 2
                date ==
                  date_time_between(
                    product_creation_start,
                    product_creation_start + TIMESPAN_DAYS \div 3, u)
            IN [category |-> categories[r][c].category_id,
                base_price |-> price,
                initial_date |-> date,
                price_history |-> <<[price |-> price, date |-> date]>>,
                changes_left |-> n]]
  /\ pc' = "product"
  /\ UNCHANGED <<run_clock, categories, products, users>>
  /\ UNCHANGED besideGeneration

\* Lines 181-191: one more price change.
PriceChange ==
  /\ pc = "product"
  /\ \A r \in Runs : draft[r].changes_left > 0
  /\ \E u \in Draws, factor \in PriceFactors :
     \E new_price \in RoundCents(draft[1].base_price * factor) :
       draft' =
         [r \in Runs |->
            LET price_change_date ==
                  date_time_between(draft[r].initial_date, run_clock[r], u)
            IN [draft[r] EXCEPT
                  !.price_history =
                     Append(@, [price |-> new_price,
                                date |-> price_change_date]),
                  !.initial_date = price_change_date,
                  !.changes_left = @ - 1]]
  /\ UNCHANGED <<pc, run_clock, categories, products, users>>
  /\ UNCHANGED besideGeneration

\* Lines 193-208: sort the history and append the product.
FinishProduct ==
  /\ pc = "product"
  /\ \A r \in Runs : draft[r].changes_left = 0
  /\ \E stock \in MinInitStock..MaxInitStock, active \in BOOLEAN :
       products' =
         [r \in Runs |->
            LET price_history == SortByDate(draft[r].price_history)
                current_price == CurrentPrice(price_history)
            IN Append(products[r],
                      [product_id |-> Len(products[r]) + 1,
                       category_id |-> draft[r].category,
                       base_price |-> current_price,
                       current_stock |-> stock,
                       is_active |-> active,
                       price_history |-> price_history,
                       creation_date |-> price_history[1].date])]
  /\ draft' = [r \in Runs |-> NoDraft]
  /\ pc' = "catalog"
  /\ UNCHANGED <<run_clock, categories, users>>
  /\ UNCHANGED besideGeneration

\* Lines 214-230: one user (the geo data are seeded draws, left out).
GenUser ==
  /\ pc = "catalog"
  /\ \A r \in Runs :
       /\ Len(products[r]) = NUM_PRODUCTS
       /\ Len(users[r]) < NUM_USERS
  /\ \E u \in Draws, v \in Draws :
       users' =
         [r \in Runs |->
            LET reg_date ==
                  date_time_between(run_clock[r] - TIMESPAN_DAYS * 3,
                                    run_clock[r] - TIMESPAN_DAYS, u)
            IN Append(users[r],
                      [user_id |-> Len(users[r]) + 1,
                       registration_date |-> reg_date,
                       last_active |->
                         date_time_between(reg_date, run_clock[r], v)])]
  /\ UNCHANGED <<pc, run_clock, categories, products, draft>>
  /\ UNCHANGED besideGeneration

\* Line 232: the three collections are complete.
EndGeneration ==
  /\ pc = "catalog"
  /\ \A r \in Runs : Len(users[r]) = NUM_USERS
  /\ pc' = "generated"
  /\ UNCHANGED generationVars
  /\ UNCHANGED besideGeneration

NextCatalog ==
  \/ GenCategory \/ BeginProduct \/ PriceChange \/ FinishProduct
  \/ GenUser \/ EndGeneration

SpecCatalog == InitCatalog /\ [][NextCatalog]_vars

\* ----------------------------------------------------------------- store
\* Lines 431-454 of dataset_generator.py (export) followed by lines 96-193
\* of load_data.py (load), run on the directory the generator wrote to.  The
\* database may hold documents of an earlier load (the document 0).
SeqOf(n) == [i \in 1..n |-> i]

\* What the generator holds in memory for a collection when it exports.
Generated(c) ==
  CASE c = "categories" -> SeqOf(NUM_CATEGORIES)
    [] c = "products" -> SeqOf(NUM_PRODUCTS)
    [] c = "users" -> SeqOf(NUM_USERS)
    [] c = "transactions" -> transactions
    [] c = "sessions" -> sessions

\* Slip: a slice one record short.
SliceShort(list, i, size) == SubSeq(list, i + 1, Min(i + size - 1, Len(list)))

\* list[i:i+size], i counted from 0.
Slice(list, i, size) == SubSeq(list, i + 1, Min(i + size, Len(list)))

\* Writing a file replaces what the name held.
WriteFile(dir, name, data) ==
  [n \in DOMAIN dir \cup {name} |-> IF n = name THEN data ELSE dir[n]]

\* sorted(glob("sessions_*.json")), as the chunk numbers in the order of
\* their file names (one digit each here, so the order of the numbers).
RECURSIVE SortedNames(_)
SortedNames(S) ==
  IF S = {} THEN <<>>
  ELSE LET least == CHOOSE k \in S : \A j \in S : k <= j
       IN <<least>> \o SortedNames(S \ {least})

InitStore ==
  /\ initial_stock = [p \in Products |-> MinInitStock]
  /\ current_stock = initial_stock
  /\ is_active = [p \in Products |-> TRUE]
  /\ category_id = [p \in Products |-> 1]
  /\ pc = "export"
  /\ iteration = 0 /\ session_counter = 0 /\ transaction_counter = 0
  /\ \E n \in 1..MaxExported : sessions = [i \in 1..n |-> [session_id |-> i]]
  /\ \E n \in 0..MaxExported :
       transactions = [i \in 1..n |-> [transaction_id |-> i]]
  /\ NoSession /\ NoSettlement
  /\ settlement = <<>>
  /\ NoActors /\ NoTiming /\ NoGeneration
  /\ files = [whole |-> <<>>, chunks |-> <<>>]
  /\ db \in [Collections -> {<<>>, <<0>>}]
  /\ loader = NoLoader

\* Lines 433-447: users, products, categories and transactions, one file each.
ExportCollections ==
  /\ pc = "export"
  /\ files' =
       [files EXCEPT !.whole =
          [c \in Collections \ {"sessions"} |-> Generated(c)]]
  /\ loader' = [loader EXCEPT !.i = 0]
  /\ pc' = "chunks"
  /\ UNCHANGED db
  /\ UNCHANGED besideStore

\* Lines 451-454: the chunk that starts at record i, to sessions_{i//CHUNK}.
ExportChunk ==
  /\ pc = "chunks"
  /\ loader.i < Len(sessions)
  /\ LET chunk == Slice(sessions, loader.i, CHUNK_SIZE)
     IN files' =
          [files EXCEPT !.chunks =
             WriteFile(@, loader.i \div CHUNK_SIZE, chunk)]
  /\ loader' = [loader EXCEPT !.i = @ + CHUNK_SIZE]
  /\ UNCHANGED <<pc, db>>
  /\ UNCHANGED besideStore

\* The generator ends; load_data.py starts.
ExportDone ==
  /\ pc = "chunks"
  /\ loader.i >= Len(sessions)
  /\ loader' = NoLoader
  /\ pc' = "load_categories"
  /\ UNCHANGED <<files, db>>
  /\ UNCHANGED besideStore

\* load_data.py 100-139: a file loaded whole: drop, insert_many.
LoadWhole(c, here, next) ==
  /\ pc = here
  /\ db' = IF c \in DOMAIN files.whole
             THEN [db EXCEPT ![c] = <<>> \o files.whole[c]]
             ELSE db
  /\ pc' = next
  /\ UNCHANGED <<files, loader>>
  /\ UNCHANGED besideStore

LoadCategories == LoadWhole("categories", "load_categories", "load_products")
LoadProducts == LoadWhole("products", "load_products", "load_users")
LoadUsers == LoadWhole("users", "load_users", "load_transactions")

\* load_data.py 146-154: read the file, drop the collection.
LoadTransactions ==
  /\ pc = "load_transactions"
  /\ IF "transactions" \in DOMAIN files.whole
       THEN /\ loader' = [loader EXCEPT !.data = files.whole["transactions"],
                                         !.i = 0]
            /\ db' = [db EXCEPT !["transactions"] = <<>>]
            /\ pc' = "insert_transactions"
       ELSE /\ pc' = "load_sessions"
            /\ UNCHANGED <<db, loader>>
  /\ UNCHANGED files
  /\ UNCHANGED besideStore

\* The batch that starts at record i of the data read.
InsertBatch(c) ==
  /\ loader.i < Len(loader.data)
  /\ db' = [db EXCEPT ![c] = @ \o Slice(loader.data, loader.i, BATCH_SIZE)]
  /\ loader' = [loader EXCEPT !.i = @ + BATCH_SIZE]
  /\ UNCHANGED <<pc, files>>
  /\ UNCHANGED besideStore

\* load_data.py 156-160.
InsertTransactions == pc = "insert_transactions" /\ InsertBatch("transactions")

TransactionsDone ==
  /\ pc = "insert_transactions"
  /\ loader.i >= Len(loader.data)
  /\ pc' = "load_sessions"
  /\ UNCHANGED storeVars
  /\ UNCHANGED besideStore

\* load_data.py 173-178: the session files; the drop only when there are any.
FindSessionFiles ==
  /\ pc = "load_sessions"
  /\ LET session_files == SortedNames(DOMAIN files.chunks)
     IN /\ loader' = [loader EXCEPT !.session_files = session_files]
        /\ IF session_files # <<>>
             THEN /\ db' = [db EXCEPT !["sessions"] = <<>>]
                  /\ pc' = "session_file"
             ELSE /\ pc' = "loaded"
                  /\ UNCHANGED db
  /\ UNCHANGED files
  /\ UNCHANGED besideStore

\* load_data.py 179-180: the next session file.
OpenSessionFile ==
  /\ pc = "session_file"
  /\ loader.session_files # <<>>
  /\ loader' = [session_files |-> Tail(loader.session_files),
                data |-> files.chunks[Head(loader.session_files)],
                i |-> 0]
  /\ pc' = "insert_sessions"
  /\ UNCHANGED <<files, db>>
  /\ UNCHANGED besideStore

\* load_data.py 183-186.
InsertSessions == pc = "insert_sessions" /\ InsertBatch("sessions")

SessionFileDone ==
  /\ pc = "insert_sessions"
  /\ loader.i >= Len(loader.data)
  /\ pc' = "session_file"
  /\ UNCHANGED storeVars
  /\ UNCHANGED besideStore

\* load_data.py 192: every file is loaded.
SessionsDone ==
  /\ pc = "session_file"
  /\ loader.session_files = <<>>
  /\ pc' = "loaded"
  /\ UNCHANGED storeVars
  /\ UNCHANGED besideStore

NextStore ==
  \/ ExportCollections \/ ExportChunk \/ ExportDone
  \/ LoadCategories \/ LoadProducts \/ LoadUsers
  \/ LoadTransactions \/ InsertTransactions \/ TransactionsDone
  \/ FindSessionFiles \/ OpenSessionFile \/ InsertSessions
  \/ SessionFileDone \/ SessionsDone

SpecStore == InitStore /\ [][NextStore]_vars

\* ------------------------------------------------------------- properties
\* Quantity of product p over a sequence of line items.
RECURSIVE ItemQty(_, _)
ItemQty(items, p) ==
  IF items = <<>> THEN 0
  ELSE (IF Head(items).product_id = p THEN Head(items).quantity ELSE 0)
       + ItemQty(Tail(items), p)

\* Quantity of product p over the line items of all recorded transactions.
RECURSIVE CommittedQty(_, _)
CommittedQty(txns, p) ==
  IF txns = <<>> THEN 0
  ELSE ItemQty(Head(txns).items, p) + CommittedQty(Tail(txns), p)

Referenced(sess_id) ==
  \E t \in 1..Len(transactions) : transactions[t].session_id = sess_id

\* C1: in every reachable state of the driver, also between two cart lines of
\* a settlement, every product's current_stock is >= 0.
C1_StockNonNegative == \A p \in Products : current_stock[p] >= 0

\* A reservation was refused inside a session-linked settlement for a
\* product whose stock earlier reservations had brought to 0.
C1_Witness ==
  /\ pc = "settle" /\ ~valid /\ last_call # NoCall /\ ~last_call.ok
  /\ last_call.before[last_call.product_id] = 0
  /\ current_stock[last_call.product_id] = 0
  /\ initial_stock[last_call.product_id] > 0

\* C2: when the driver has terminated, every product's stock is its initial
\* stock minus the quantity of that product over all recorded transactions.
C2_StockReconciles ==
  pc = "done" =>
    \A p \in Products :
      current_stock[p] = initial_stock[p] - CommittedQty(transactions, p)

\* C3: a returned update_stock call is refused, with the ledger as it was,
\* when the product is unknown or the quantity exceeds its stock; otherwise
\* it is granted and the ledger differs exactly by that product's stock being
\* lower by the whole quantity.
C3_ReserveContract ==
  last_call # NoCall =>
    IF \/ last_call.product_id \notin Products
       \/ last_call.quantity > last_call.before[last_call.product_id]
      THEN ~last_call.ok /\ last_call.after = last_call.before
      ELSE /\ last_call.ok
           /\ last_call.after =
                [last_call.before EXCEPT
                   ![last_call.product_id] = @ - last_call.quantity]

\* A call for exactly the remaining stock was granted.
C3_Witness ==
  /\ last_call # NoCall /\ last_call.ok
  /\ last_call.quantity = last_call.before[last_call.product_id]

\* C4: with several actors inside update_stock in any interleaving, at most
\* one is between the acquisition and the release of the lock, no stock is
\* ever negative, and whenever no call is in progress every product's stock
\* is its initial stock minus the quantities of the calls that returned true.
InLock(a) == actor[a].pc \in {"check", "read", "write", "release"}

C4_ConcurrentReserve ==
  /\ \A a, b \in Actors : InLock(a) /\ InLock(b) => a = b
  /\ \A p \in Products : current_stock[p] >= 0
  /\ (\A a \in Actors : actor[a].pc = "idle") =>
       \A p \in Products : current_stock[p] = initial_stock[p] - granted[p]

\* An actor is about to store the decrement of a product while another actor
\* waits for the lock with a call on the same product, after an earlier call
\* on it was granted.
C4_Witness ==
  \E a, b \in Actors :
    /\ a # b /\ actor[a].pc = "write" /\ actor[b].pc = "acquire"
    /\ actor[a].product_id = actor[b].product_id
    /\ granted[actor[a].product_id] > 0

\* C5: when a reservation of the session-linked settlement has failed, the
\* step that ends the settlement records no transaction, leaves the
\* transaction counter alone and leaves the stock at its value before the
\* settlement minus the lines already reserved; no transaction ever
\* references a session whose settlement was aborted.
C5_AbortStep ==
  (pc = "settle" /\ ~valid /\ pc' = "extra") =>
    /\ transactions' = transactions
    /\ transaction_counter' = transaction_counter
    /\ \A p \in Products :
         current_stock'[p] = stock_before[p] - ItemQty(transaction_items, p)

C5_AbortedUnreferenced ==
  \A i \in 1..Len(settlement) :
    settlement[i] = "aborted" => ~Referenced(sessions[i].session_id)

C5_AbortKeepsReservations ==
  [][C5_AbortStep]_vars /\ []C5_AbortedUnreferenced

\* The settlement of the last session was aborted after an earlier cart line
\* had been reserved: that stock is gone and no transaction accounts for it.
C5_Witness ==
  /\ pc = "extra" /\ settlement # <<>>
  /\ settlement[Len(settlement)] = "aborted"
  /\ \E p \in Products :
       current_stock[p] < initial_stock[p] - CommittedQty(transactions, p)

\* C6: in the independent path a step over an inactive product makes no
\* update_stock call and changes nothing; a step whose call is refused
\* changes nothing either and every step moves on to the next sampled
\* product; the closing step records a transaction with session_id None
\* exactly when a line item survived, and records nothing, with no stock
\* changed by the attempt, when every sampled product is inactive.
C6_ItemStep ==
  (pc = "extra_item" /\ line_idx <= Len(products_in_txn)
   /\ line_idx' # line_idx) =>
    /\ pc' = "extra_item" /\ line_idx' = line_idx + 1
    /\ ~is_active[products_in_txn[line_idx]] =>
         /\ last_call' = NoCall
         /\ current_stock' = current_stock
         /\ transaction_items' = transaction_items
    /\ (last_call' # NoCall /\ ~last_call'.ok) =>
         /\ current_stock' = current_stock
         /\ transaction_items' = transaction_items
    /\ (last_call' # NoCall /\ last_call'.ok) =>
         /\ last_call'.product_id = products_in_txn[line_idx]
         /\ transaction_items' =
              Append(transaction_items,
                     LineItem(last_call'.product_id, last_call'.quantity,
                              PriceOf(last_call'.product_id)))

C6_CommitStep ==
  (pc = "extra_item" /\ pc' = "loop") =>
    /\ line_idx > Len(products_in_txn)
    /\ IF transaction_items # <<>>
         THEN /\ Len(transactions') = Len(transactions) + 1
              /\ transactions'[Len(transactions')].session_id = None
              /\ transactions'[Len(transactions')].items = transaction_items
              /\ transaction_counter' = transaction_counter + 1
         ELSE /\ transactions' = transactions
              /\ transaction_counter' = transaction_counter
    /\ (\A i \in 1..Len(products_in_txn) : ~is_active[products_in_txn[i]]) =>
         /\ transactions' = transactions
         /\ transaction_counter' = transaction_counter
         /\ current_stock' = stock_before

C6_IndependentPath == [][C6_ItemStep /\ C6_CommitStep]_vars

\* The first sampled product was active and its reservation was refused, the
\* second one was reserved and is the only line item.
C6_Witness ==
  /\ pc = "extra_item" /\ Len(products_in_txn) >= 2 /\ line_idx = 3
  /\ is_active[products_in_txn[1]]
  /\ Len(transaction_items) = 1
  /\ transaction_items[1].product_id = products_in_txn[2]

\* C7, as stated: every converted session whose settlement is over is
\* referenced by a recorded transaction, unless that settlement was aborted
\* by a failed reservation.
C7_ConvertedHasTransaction ==
  \A i \in 1..Len(sessions) :
    (sessions[i].conversion_status = "converted"
     /\ settlement[i] # "running") =>
      \/ Referenced(sessions[i].session_id)
      \/ settlement[i] = "aborted"

\* C7, amended: ... or no settlement was attempted because the transaction
\* target had already been reached when the session was recorded.
C7_ConvertedHasTransactionOrQuota ==
  \A i \in 1..Len(sessions) :
    (sessions[i].conversion_status = "converted"
     /\ settlement[i] # "running") =>
      \/ Referenced(sessions[i].session_id)
      \/ settlement[i] = "aborted"
      \/ settlement[i] = "skipped" /\ transaction_counter = NUM_TRANSACTIONS

\* A converted session was recorded after the transaction target was reached.
C7_Witness ==
  \E i \in 1..Len(sessions) :
    /\ sessions[i].conversion_status = "converted"
    /\ settlement[i] = "skipped"
    /\ ~Referenced(sessions[i].session_id)

\* C8: within the page loop the converted flag, once true, stays true, and
\* it turns true only in a pass that views a checkout or confirmation page
\* with a non-empty cart; so a converted session, in the loop and as
\* recorded, has such a page in its page views and a non-empty cart.
CheckoutPages == {"checkout", "confirmation"}

HasCheckoutPage(views) ==
  \E i \in 1..Len(views) : views[i].page_type \in CheckoutPages

C8_PageStep ==
  (pc = "page" /\ pc' = "page") =>
    /\ converted => converted'
    /\ (~converted /\ converted') =>
         /\ Len(page_views') = Len(page_views) + 1
         /\ page_views'[Len(page_views')].page_type \in CheckoutPages
         /\ cart_contents # <<>> /\ cart_contents' = cart_contents

C8_ConvertedState ==
  /\ (pc = "page" /\ converted) =>
       HasCheckoutPage(page_views) /\ cart_contents # <<>>
  /\ \A i \in 1..Len(sessions) :
       sessions[i].conversion_status = "converted" =>
         /\ HasCheckoutPage(sessions[i].page_views)
         /\ sessions[i].cart_contents # <<>>

C8_ConversionMonotone == [][C8_PageStep]_vars /\ []C8_ConvertedState

\* A converted session visited confirmation after checkout: a second
\* qualifying page was passed and the flag is still true.
C8_Witness ==
  /\ pc = "page" /\ converted /\ Len(page_views) >= 2
  /\ page_views[Len(page_views)].page_type = "confirmation"
  /\ page_views[Len(page_views) - 1].page_type = "checkout"

\* C9: the loop terminates whatever the draws are: every step of the driver
\* strictly increases a rank that is bounded by the ceiling on iterations,
\* and the driver has a next step in every state but the terminated one, so
\* no run goes on for ever and none stops early; the iteration count never
\* exceeds 2 * (NUM_SESSIONS + NUM_TRANSACTIONS), and after termination both
\* counters equal their targets or the iteration count equals the ceiling.
PhaseRank ==
  CASE pc = "page" -> page_idx
    [] pc = "settle" ->
         MaxPages + 1 + 2 * (line_idx - 1) + (IF valid THEN 0 ELSE 1)
    [] pc = "extra" -> MaxPages + 2 * NUM_PRODUCTS + 4
    [] pc = "extra_item" -> MaxPages + 2 * NUM_PRODUCTS + 4 + line_idx
    [] pc = "loop" -> MaxPages + 2 * NUM_PRODUCTS + MaxBasket + 6
    [] OTHER -> 0

IterSpan == MaxPages + 2 * NUM_PRODUCTS + MaxBasket + 7

Rank ==
  IF pc = "done" THEN (MAX_ITERATIONS + 1) * IterSpan
  ELSE iteration * IterSpan + PhaseRank

C9_Progress ==
  /\ Rank <= (MAX_ITERATIONS + 1) * IterSpan
  /\ pc # "done" => ENABLED Next

C9_Bounded == iteration <= MAX_ITERATIONS

C9_Terminal ==
  pc = "done" =>
    \/ session_counter = NUM_SESSIONS
       /\ transaction_counter = NUM_TRANSACTIONS
    \/ iteration = MAX_ITERATIONS

C9_Terminates ==
  /\ [][Rank' > Rank]_vars
  /\ [](C9_Progress /\ C9_Bounded /\ C9_Terminal)

\* The loop ended at the ceiling with the transaction target unmet.
C9_Witness ==
  /\ pc = "done" /\ iteration = MAX_ITERATIONS
  /\ transaction_counter < NUM_TRANSACTIONS

\* C10: the collections hold as many records as the counters say, never more
\* than the targets, and a step changes or removes no recorded session or
\* transaction.
C10_Counts ==
  /\ Len(sessions) = session_counter /\ session_counter <= NUM_SESSIONS
  /\ Len(transactions) = transaction_counter
  /\ transaction_counter <= NUM_TRANSACTIONS

C10_AppendOnly ==
  /\ Len(sessions') >= Len(sessions)
  /\ \A i \in 1..Len(sessions) : sessions'[i] = sessions[i]
  /\ Len(transactions') >= Len(transactions)
  /\ \A i \in 1..Len(transactions) : transactions'[i] = transactions[i]

C10_CountsAndAppendOnly == []C10_Counts /\ [][C10_AppendOnly]_vars

\* One iteration recorded a session-linked and then an independent
\* transaction, which met the target while an active product still has stock
\* to sell and sessions remain to be generated.
C10_Witness ==
  /\ pc = "loop" /\ iteration = 1 /\ Len(transactions) = 2
  /\ transactions[1].session_id # None /\ transactions[2].session_id = None
  /\ transaction_counter = NUM_TRANSACTIONS
  /\ session_counter < NUM_SESSIONS
  /\ \E p \in Products : is_active[p] /\ current_stock[p] > 0

\* C11: a line item enters the running settlement, on either path, only in a
\* step whose update_stock call was for exactly that product and quantity
\* and returned true, so the quantity was at most the product's stock just
\* before the call, and that stock was not 0; the items of a settlement
\* account exactly for the stock it has taken, and a recorded transaction
\* carries exactly the items of the settlement that recorded it.
C11_ItemStep ==
  Len(transaction_items') > Len(transaction_items) =>
    /\ pc \in {"settle", "extra_item"} /\ pc' = pc
    /\ Len(transaction_items') = Len(transaction_items) + 1
    /\ SubSeq(transaction_items', 1, Len(transaction_items)) =
         transaction_items
    /\ LET item == transaction_items'[Len(transaction_items')] IN
         /\ last_call' # NoCall /\ last_call'.ok
         /\ last_call'.before = current_stock
         /\ item.product_id = last_call'.product_id
         /\ item.quantity = last_call'.quantity
         /\ item.quantity >= 1
         /\ item.quantity <= current_stock[item.product_id]
         /\ current_stock[item.product_id] > 0
         /\ current_stock'[item.product_id] =
              current_stock[item.product_id] - item.quantity

C11_RecordStep ==
  Len(transactions') > Len(transactions) =>
    /\ transaction_items # <<>>
    /\ transactions'[Len(transactions')].items = transaction_items

C11_Reserved ==
  pc \in {"settle", "extra_item"} =>
    \A p \in Products :
      ItemQty(transaction_items, p) = stock_before[p] - current_stock[p]

C11_ItemsWereReserved ==
  [][C11_ItemStep /\ C11_RecordStep]_vars /\ []C11_Reserved

\* An independent basket whose first product was reserved for its whole
\* remaining stock and whose second product, active but with stock 0, was
\* refused: it is not among the line items.
C11_Witness ==
  /\ pc = "extra_item" /\ line_idx = 3 /\ Len(transaction_items) = 1
  /\ transaction_items[1].product_id = products_in_txn[1]
  /\ current_stock[products_in_txn[1]] = 0
  /\ last_call # NoCall /\ ~last_call.ok
  /\ last_call.product_id = products_in_txn[2]
  /\ last_call.before[last_call.product_id] = 0

\* C12: with num_pages in 1..15 and a duration of 30..1800 seconds, the
\* timestamps of the page views of a session, while it is generated and as
\* recorded, never decrease from one page view to the next and all lie
\* between the session's start_time and its end_time = start + duration.
StampsOrdered(views, first, last) ==
  /\ \A i \in 1..Len(views) :
       first <= views[i].timestamp /\ views[i].timestamp <= last
  /\ \A i \in 1..(Len(views) - 1) :
       views[i].timestamp <= views[i + 1].timestamp

C12_TimestampsOrdered ==
  /\ pc = "timing" =>
       StampsOrdered(page_views, session_start,
                     EndTime(session_start, session_duration))
  /\ \A i \in 1..Len(sessions) :
       /\ sessions[i].end_time =
            sessions[i].start_time + sessions[i].duration_seconds
       /\ StampsOrdered(sessions[i].page_views, sessions[i].start_time,
                        sessions[i].end_time)

\* A recorded session of 15 page views whose duration is not a multiple of
\* 15: the step is rounded down to 2 seconds and the last page view falls
\* 16 seconds before the end.
C12_Witness ==
  /\ pc = "timed" /\ Len(sessions) = 1
  /\ sessions[1].duration_seconds = 44
  /\ Len(sessions[1].page_views) = MaxNumPages
  /\ sessions[1].page_views[MaxNumPages].timestamp =
       sessions[1].end_time - 16

\* C13: in every recorded transaction, of either path, every line subtotal
\* is quantity times unit price, subtotal is the sum of the line subtotals,
\* discount is 0 or the subtotal times 5, 10, 15 or 20 percent rounded to
\* the cent, total is subtotal minus discount, and total >= 0.  Amounts are
\* in cents.
RoundedRate(subtotal, discount) ==
  \E r \in {5, 10, 15, 20} :
    /\ 100 * discount - subtotal * r <= 50
    /\ subtotal * r - 100 * discount <= 50

C13_Amounts ==
  \A t \in 1..Len(transactions) :
    LET txn == transactions[t] IN
      /\ \A i \in 1..Len(txn.items) :
           txn.items[i].subtotal =
             txn.items[i].quantity * txn.items[i].unit_price
      /\ txn.subtotal = SumSubtotals(txn.items)
      /\ txn.discount = 0 \/ RoundedRate(txn.subtotal, txn.discount)
      /\ txn.total = txn.subtotal - txn.discount
      /\ txn.total >= 0

\* One iteration recorded a session-linked transaction and an independent
\* one of two line items whose discount is a rate of the subtotal that had
\* to be rounded to the cent.
C13_Witness ==
  /\ Len(transactions) = 2
  /\ transactions[1].session_id # None /\ transactions[2].session_id = None
  /\ Len(transactions[2].items) = 2
  /\ transactions[2].discount > 0
  /\ \A r \in {5, 10, 15, 20} :
       100 * transactions[2].discount # transactions[2].subtotal * r

\* C14: in every reachable state of the driver all references resolve:
\* every recorded session's user is an existing user; every page view, at
\* the moment it is the latest of the session being generated, names no
\* product or an existing one and no category or an existing one; every
\* recorded transaction's user is an existing user, each of its line items
\* names an existing product, and its session_id is None or the identifier
\* of a session already recorded.
C14_ReferencesResolve ==
  /\ \A i \in 1..Len(sessions) : sessions[i].user_id \in Users
  /\ pc \in {"page", "settle"} => user \in Users
  /\ \A i \in 1..Len(page_views) :
       /\ page_views[i].product_id \in Products \cup {None}
       /\ page_views[i].category_id \in Categories \cup {None}
  /\ \A t \in 1..Len(transactions) :
       /\ transactions[t].user_id \in Users
       /\ \A i \in 1..Len(transactions[t].items) :
            transactions[t].items[i].product_id \in Products
       /\ \/ transactions[t].session_id = None
          \/ \E i \in 1..Len(sessions) :
               sessions[i].session_id = transactions[t].session_id

\* The second session views a product page, bound to a product and its
\* category, after the first iteration recorded a transaction linked to the
\* first session and an independent one.
C14_Witness ==
  /\ pc = "page" /\ iteration = 2 /\ Len(sessions) = 1
  /\ Len(transactions) = 2
  /\ transactions[1].session_id = sessions[1].session_id
  /\ transactions[2].session_id = None
  /\ page_views # <<>>
  /\ page_views[1].product_id \in Products
  /\ page_views[1].category_id \in Categories

\* C15: no step of a session's journey (starting the session, a page view
\* with its content, cart and conversion, appending the session) changes
\* any product's stock; a step that changes stock is a settlement step whose
\* update_stock call returned true, and the change is that call's.
C15_JourneyStep ==
  pc \in {"loop", "page"} => current_stock' = current_stock

C15_ReserveStep ==
  current_stock' # current_stock =>
    /\ pc \in {"settle", "extra_item"}
    /\ last_call' # NoCall /\ last_call'.ok
    /\ last_call'.before = current_stock
    /\ last_call'.after = current_stock'

C15_JourneyKeepsStock == [][C15_JourneyStep /\ C15_ReserveStep]_vars

\* In the page loop of the first session the cart holds more of a product
\* than the ledger has, and the ledger is as generated.
C15_Witness ==
  /\ pc = "page" /\ iteration = 1 /\ cart_contents # <<>>
  /\ cart_contents[1].quantity > current_stock[cart_contents[1].product_id]
  /\ current_stock = initial_stock

\* C16: two runs with the same seed and configuration, whatever their
\* wall-clock times, end with identical category, product and user
\* collections.
C16_SameCollections ==
  pc = "generated" =>
    /\ categories[1] = categories[2]
    /\ products[1] = products[2]
    /\ users[1] = users[2]

\* C17: once the export is over, the session chunk files are numbered
\* 0, 1, ... without a gap, each holds between 1 and CHUNK_SIZE records,
\* chunk k holds the sessions from record k * CHUNK_SIZE on, and the lengths
\* sum to the number of sessions; once the load is over, every collection of
\* the database holds exactly as many documents as the generator produced.
RECURSIVE SumLengths(_, _)
SumLengths(chunks, n) ==
  IF n = 0 THEN 0 ELSE Len(chunks[n - 1]) + SumLengths(chunks, n - 1)

Exported == pc \notin {"export", "chunks"}

C17_RoundTrip ==
  /\ Exported =>
       LET chunks == files.chunks
           count == Cardinality(DOMAIN chunks)
       IN /\ DOMAIN chunks = 0..(count - 1)
          /\ \A k \in DOMAIN chunks :
               /\ Len(chunks[k]) \in 1..CHUNK_SIZE
               /\ \A j \in 1..Len(chunks[k]) :
                    /\ k * CHUNK_SIZE + j <= Len(sessions)
                    /\ chunks[k][j] = sessions[k * CHUNK_SIZE + j]
          /\ SumLengths(chunks, count) = Len(sessions)
  /\ pc = "loaded" =>
       \A c \in Collections : Len(db[c]) = Len(Generated(c))

\* Reached: a load of three session chunks, the last one partial, and of
\* several transaction batches.
C17_Witness ==
  /\ pc = "loaded"
  /\ Cardinality(DOMAIN files.chunks) = 3
  /\ Len(files.chunks[2]) < CHUNK_SIZE
  /\ Len(db["sessions"]) = MaxExported
  /\ Len(db["transactions"]) = MaxExported

\* C18: in every page-view sequence, the one being built and the recorded
\* ones, the first page type is home, search or category_listing and every
\* consecutive pair of page types is a pair of the transition table; checkout
\* follows cart only, confirmation follows checkout only, and cart follows
\* product_detail or checkout only.
AllowedPairs ==
  ({"home"} \X {"category_listing", "search", "product_detail"})
  \cup ({"category_listing"}
          \X {"product_detail", "category_listing", "search", "home"})
  \cup ({"search"} \X {"product_detail", "search", "category_listing", "home"})
  \cup ({"product_detail"}
          \X {"product_detail", "cart", "category_listing", "search", "home"})
  \cup ({"cart"} \X {"checkout", "product_detail", "category_listing", "home"})
  \cup ({"checkout"} \X {"confirmation", "cart", "home"})
  \cup ({"confirmation"} \X {"home", "product_detail", "category_listing"})

TrailAllowed(views) ==
  /\ views # <<>> =>
       views[1].page_type \in {"home", "search", "category_listing"}
  /\ \A i \in 1..(Len(views) - 1) :
       LET prev == views[i].page_type
           type == views[i + 1].page_type
       IN /\ <<prev, type>> \in AllowedPairs
          /\ type = "checkout" => prev = "cart"
          /\ type = "confirmation" => prev = "checkout"
          /\ type = "cart" => prev \in {"product_detail", "checkout"}

C18_TransitionsAllowed ==
  /\ TrailAllowed(page_views)
  /\ \A i \in 1..Len(sessions) : TrailAllowed(sessions[i].page_views)

\* Reached: a recorded session of MaxTrail pages that went through cart,
\* checkout and confirmation and on to a product page after that.
C18_Witness ==
  /\ pc = "trailed"
  /\ \E i \in 1..Len(sessions) :
       LET views == sessions[i].page_views
       IN /\ Len(views) = MaxTrail
          /\ \E j \in 1..(Len(views) - 1) :
               /\ views[j].page_type = "confirmation"
               /\ views[j + 1].page_type = "product_detail"
          /\ \E j \in 1..(Len(views) - 1) :
               /\ views[j].page_type = "checkout"
               /\ views[j + 1].page_type = "confirmation"
          /\ \E j \in 1..(Len(views) - 1) :
               /\ views[j].page_type = "cart"
               /\ views[j + 1].page_type = "checkout"

\* C19: every transaction with a session_id references a recorded session,
\* the sessions of that identifier are converted, and no other transaction
\* references it; a transaction is appended with a session_id only by the
\* settlement of the session recorded last, and its line items are the lines
\* of that session's cart with a quantity above 0, one item per line with the
\* line's product, quantity and price, the cart being the one the session
\* record was built from; records are never changed once appended.  (The
\* identifiers, uuid4 prefixes in the script, are taken as distinct.)
ItemsAreCart(items, cart) ==
  LET lines == PositiveLines(cart)
  IN /\ Len(items) = Len(lines)
     /\ \A k \in 1..Len(lines) :
          /\ items[k].product_id = lines[k].product_id
          /\ items[k].quantity = lines[k].quantity
          /\ items[k].unit_price = lines[k].price
     /\ \A k, l \in 1..Len(items) :
          items[k].product_id = items[l].product_id => k = l

C19_References ==
  \A t \in 1..Len(transactions) :
    LET sid == transactions[t].session_id
    IN sid # None =>
         /\ \E i \in 1..Len(sessions) : sessions[i].session_id = sid
         /\ \A i \in 1..Len(sessions) :
              sessions[i].session_id = sid =>
                sessions[i].conversion_status = "converted"
         /\ \A u \in 1..Len(transactions) :
              transactions[u].session_id = sid => u = t

C19_AppendOnly ==
  /\ Len(sessions') >= Len(sessions)
  /\ Len(transactions') >= Len(transactions)
  /\ sessions = SubSeq(sessions', 1, Len(sessions))
  /\ transactions = SubSeq(transactions', 1, Len(transactions))

C19_CartKept ==
  (pc \in {"page", "settle"} /\ pc' = "settle") =>
    /\ cart_contents' = cart_contents
    /\ session_id' = session_id
    /\ sessions'[Len(sessions')].session_id = session_id
    /\ sessions'[Len(sessions')].conversion_status = "converted"

C19_LinkedCommit ==
  (/\ Len(transactions') = Len(transactions) + 1
   /\ transactions'[Len(transactions')].session_id # None) =>
    /\ pc = "settle"
    /\ transactions'[Len(transactions')].session_id = session_id
    /\ ItemsAreCart(transactions'[Len(transactions')].items, cart_contents)

C19_LinkedToCart ==
  /\ [][C19_AppendOnly /\ C19_CartKept /\ C19_LinkedCommit]_vars
  /\ []C19_References

\* Reached: two session-linked transactions for two converted sessions, one
\* of them for more than one unit of a product.
C19_Witness ==
  /\ Len(transactions) = 2
  /\ transactions[1].session_id # None
  /\ transactions[2].session_id # None
  /\ transactions[1].session_id # transactions[2].session_id
  /\ \E t \in 1..2 : \E k \in 1..Len(transactions[t].items) :
       transactions[t].items[k].quantity > 1

\* C20: when a session is recorded, its conversion_status is converted
\* exactly when the converted flag is set, abandoned exactly when the flag is
\* not set and the cart is not empty, browsed exactly when the flag is not
\* set and the cart is empty; in every recorded session, a converted status
\* comes with a cart that is not empty, every cart line has a quantity of at
\* least 1, and every product of the cart is among the viewed products.
C20_RecordStep ==
  Len(sessions') = Len(sessions) + 1 =>
    LET record == sessions'[Len(sessions')]
        status == record.conversion_status
    IN /\ status \in {"converted", "abandoned", "browsed"}
       /\ status = "converted" <=> converted
       /\ status = "abandoned" <=> (~converted /\ cart_contents # <<>>)
       /\ status = "browsed" <=> (~converted /\ cart_contents = <<>>)
       /\ (cart_contents = <<>>) <=> (record.cart_contents = <<>>)

C20_Recorded ==
  \A i \in 1..Len(sessions) :
    LET record == sessions[i]
    IN /\ record.conversion_status = "converted" =>
            record.cart_contents # <<>>
       /\ record.conversion_status = "browsed" =>
            record.cart_contents = <<>>
       /\ \A k \in 1..Len(record.cart_contents) :
            /\ record.cart_contents[k].quantity >= 1
            /\ record.cart_contents[k].product_id \in record.viewed_products

C20_StatusAndCart == [][C20_RecordStep]_vars /\ []C20_Recorded

\* Reached: a recorded converted session with two cart lines, one of them
\* for the largest quantity one visit of a product page adds.
C20_Witness ==
  /\ Len(sessions) = 1
  /\ sessions[1].conversion_status = "converted"
  /\ Len(sessions[1].cart_contents) = 2
  /\ \E k \in 1..2 : sessions[1].cart_contents[k].quantity = MaxAddQty

\* C21: the ceiling is at least NUM_SESSIONS; every iteration begun with the
\* session target not yet met records exactly one session, and an iteration
\* begun with the target met records none; so between iterations the number
\* of sessions recorded is the smaller of the iteration count and
\* NUM_SESSIONS, and when the loop has terminated session_counter, and the
\* number of session records, is NUM_SESSIONS.
C21_IterationStep ==
  iteration' = iteration + 1 =>
    IF session_counter < NUM_SESSIONS
      THEN pc' = "page" /\ session_counter' = session_counter
      ELSE pc' = "extra" /\ session_counter' = session_counter

C21_RecordStep ==
  /\ session_counter' \in {session_counter, session_counter + 1}
  /\ session_counter' = session_counter + 1 <=> (pc = "page" /\ pc' # "page")
  /\ Len(sessions') = session_counter'

C21_Counted ==
  /\ MAX_ITERATIONS >= NUM_SESSIONS
  /\ Len(sessions) = session_counter
  /\ pc = "page" => session_counter = iteration - 1
  /\ pc \in {"loop", "done"} =>
       session_counter = Min(iteration, NUM_SESSIONS)
  /\ pc = "done" => session_counter = NUM_SESSIONS

C21_SessionsDelivered ==
  /\ [][C21_IterationStep /\ C21_RecordStep]_vars
  /\ []C21_Counted

\* Reached: the loop ended by the ceiling, every session delivered and the
\* transaction count short of its target.
C21_Witness ==
  /\ pc = "done"
  /\ iteration = MAX_ITERATIONS
  /\ session_counter = NUM_SESSIONS
  /\ transaction_counter < NUM_TRANSACTIONS

\* C22: the page at which a session becomes converted is a checkout or a
\* confirmation page; before it in the page-view sequence there is a cart
\* page, and before that cart page a product_detail page at which a quantity
\* was put in the cart; so a converted session, running or recorded, has at
\* least 4 page views, and a session of fewer than 4 pages is not converted.
ConversionPath(views, j) ==
  /\ views[j].page_type \in {"checkout", "confirmation"}
  /\ \E c \in 1..(j - 1) :
       /\ views[c].page_type = "cart"
       /\ \E d \in 1..(c - 1) :
            /\ views[d].page_type = "product_detail"
            /\ views[d].added > 0

C22_ConversionStep ==
  (~converted /\ converted') =>
    /\ Len(page_views') = Len(page_views) + 1
    /\ ConversionPath(page_views', Len(page_views'))

C22_Converted ==
  /\ converted =>
       /\ Len(page_views) >= 4
       /\ num_pages >= 4
       /\ \E j \in 1..Len(page_views) : ConversionPath(page_views, j)
  /\ \A i \in 1..Len(sessions) :
       LET views == sessions[i].page_views
       IN /\ sessions[i].conversion_status = "converted" =>
               /\ Len(views) >= 4
               /\ \E j \in 1..Len(views) : ConversionPath(views, j)
          /\ Len(views) < 4 =>
               sessions[i].conversion_status # "converted"

C22_ConversionFollowsCart == [][C22_ConversionStep]_vars /\ []C22_Converted

\* Reached: a recorded session of four pages, converted at the checkout
\* page that ends it.
C22_Witness ==
  /\ Len(sessions) = 1
  /\ sessions[1].conversion_status = "converted"
  /\ Len(sessions[1].page_views) = 4
  /\ sessions[1].page_views[4].page_type = "checkout"

C24_History(product) ==
  LET history == product.price_history
  IN /\ Len(history) \in 1..3
     /\ \A k \in 1..(Len(history) - 1) : history[k].date <= history[k + 1].date
     /\ \A k \in 1..Len(history) : history[k].date <= history[Len(history)].date
     /\ product.base_price = history[Len(history)].price
     /\ product.creation_date = history[1].date

C24_PriceHistories ==
  \A r \in Runs : \A i \in 1..Len(products[r]) : C24_History(products[r][i])

\* Reached: every product generated, one of them with three entries at three
\* dates and a base price that is not the price it started with.
C24_Witness ==
  /\ pc = "generated"
  /\ \E i \in 1..Len(products[1]) :
       LET history == products[1][i].price_history
       IN /\ Len(history) = 3
          /\ history[1].date < history[2].date
          /\ history[2].date < history[3].date
          /\ history[3].price # history[1].price
          /\ products[1][i].base_price = history[3].price
====
